---- MODULE Spec2Model ----
(***************************************************************************)
(* Model of the TIC "historique" frame decoder Linky::decode and of        *)
(* Linky::checksum, and of the Wi-Fi connection wifi_connect,              *)
(* wifi_disconnect and wifi_event_handler (src/esp32/main/linky.cpp).      *)
(*                                                                         *)
(* Bytes are integers.  A C array of N elements is a function on 0..N-1,   *)
(* so that the indices of the model are the indices of the code.  A C      *)
(* string is the sequence of the bytes before its first NUL.               *)
(***************************************************************************)
EXTENDS Integers, Sequences, FiniteSets, TLC

VARIABLES
    buffer,        \* Linky::buffer, the receive buffer decode() scans
    data,          \* Linky::data, the decoded record
    rx,            \* bytes queued in the UART driver, not yet read
    pc,            \* "boot": no decode since start-up, "idle": the last
                   \* decode returned, "crashed": the last decode trapped
    result,        \* return value of the last decode() call
    rxBytes,       \* value uart_read_bytes returned in the last call
    startOfFrame,  \* decode's local of the last call
    endOfFrame,    \* decode's local of the last call
    trace,         \* one entry per checksum comparison of the last call
    sent,          \* number of later transmissions of the meter so far
    wifi           \* the statics of the Wi-Fi code and the resources of
                   \* the platform they designate

linkyVars == <<buffer, data, rx, pc, result, rxBytes, startOfFrame,
               endOfFrame, trace, sent>>

vars == <<buffer, data, rx, pc, result, rxBytes, startOfFrame, endOfFrame,
          trace, sent, wifi>>

----------------------------------------------------------------------------
(* Protocol constants of linky.h (not part of the sources at hand); the    *)
(* delimiters are those of the historical mode.                            *)
START_OF_FRAME == 2
END_OF_FRAME == 3
START_OF_GROUP == 10
END_OF_GROUP == 13
GROUP_SEPARATOR == 32
BUFFER_SIZE == 256
RX_BUF_SIZE == BUFFER_SIZE
GROUP_COUNT == 50

(* Sizes written in linky.cpp.                                             *)
FrameCap == 200
FRAME_SIZE == FrameCap
LabelCap == 10
ValueCap == 20
ChecksumCap == 5

(* An unsigned int is modelled by the two's-complement integer that has    *)
(* the same 32 bits: 0 .. 2^31 - 1 stand for themselves, and UINT_MAX,     *)
(* whose bits are all ones, is -1.  The indices and differences decode()   *)
(* computes lie between -FrameCap and BUFFER_SIZE, where the integer       *)
(* difference is the wrapped unsigned difference.                          *)
UINT_MAX == -1

(* An unsigned long (32 bits on the ESP32) is the pair <<high, low>> of    *)
(* its two 16-bit halves.                                                  *)
Half == 65536
ULONG_MAX == <<Half - 1, Half - 1>>

(* Bounds of the model.                                                    *)
MaxGroups == 2
MaxSent == 1

----------------------------------------------------------------------------
(* Helpers on byte strings.                                                *)

Min(a, b) == IF a < b THEN a ELSE b

(* a < b and a > b on unsigned ints.                                       *)
ULess(a, b) == IF (a < 0) = (b < 0) THEN a < b ELSE b < 0
UGreater(a, b) == ULess(b, a)

RECURSIVE SumBytes(_)
SumBytes(s) == IF s = <<>> THEN 0 ELSE Head(s) + SumBytes(Tail(s))

RECURSIVE BitAnd(_, _)
BitAnd(a, b) ==
    IF a = 0 \/ b = 0 THEN 0
    ELSE (a % 2) * (b % 2) + 2 * BitAnd(a \div 2, b \div 2)

(* The bytes of s before its first NUL: what strlen, strcmp, strcpy and    *)
(* strtoul see of a char array.                                            *)
RECURSIVE CStr(_)
CStr(s) ==
    IF s = <<>> \/ Head(s) = 0 THEN <<>> ELSE <<Head(s)>> \o CStr(Tail(s))

(* memcpy(dst, arr + from, n) into a zeroed array: the n bytes copied.     *)
Slice(arr, from, n) == [k \in 1..n |-> arr[from + k - 1]]

----------------------------------------------------------------------------
(* The labels decode() compares with (lines 187-231), as byte strings.     *)
ADCO == <<65, 68, 67, 79>>
OPTARIF == <<79, 80, 84, 65, 82, 73, 70>>
ISOUSC == <<73, 83, 79, 85, 83, 67>>
BASE == <<66, 65, 83, 69>>
HCHC == <<72, 67, 72, 67>>
HCHP == <<72, 67, 72, 80>>
PTEC == <<80, 84, 69, 67>>
IINST == <<73, 73, 78, 83, 84>>
IMAX == <<73, 77, 65, 88>>
PAPP == <<80, 65, 80, 80>>
HHPHC == <<72, 72, 80, 72, 67>>
MOTDETAT == <<77, 79, 84, 68, 69, 84, 65, 84>>

NumericSlots == {"ADCO", "ISOUSC", "BASE", "HCHC", "HCHP", "IINST", "IMAX",
                 "PAPP"}
TextSlots == {"OPTARIF", "PTEC", "HHPHC", "MOTDETAT"}
Slots == NumericSlots \cup TextSlots

(* The label text of a slot.                                               *)
LabelOf(slot) ==
    CASE slot = "ADCO" -> ADCO
      [] slot = "OPTARIF" -> OPTARIF
      [] slot = "ISOUSC" -> ISOUSC
      [] slot = "BASE" -> BASE
      [] slot = "HCHC" -> HCHC
      [] slot = "HCHP" -> HCHP
      [] slot = "PTEC" -> PTEC
      [] slot = "IINST" -> IINST
      [] slot = "IMAX" -> IMAX
      [] slot = "PAPP" -> PAPP
      [] slot = "HHPHC" -> HHPHC
      [] slot = "MOTDETAT" -> MOTDETAT

(* data = {0} (line 86): every number 0, every text empty.                 *)
ZeroData == [s \in Slots |-> IF s \in NumericSlots THEN <<0, 0>> ELSE <<>>]

(* The size of the character array of a text slot: the width of the field  *)
(* in the historical mode and the terminating NUL.                         *)
SlotCap(slot) ==
    CASE slot = "OPTARIF" -> 5
      [] slot = "PTEC" -> 5
      [] slot = "HHPHC" -> 2
      [] slot = "MOTDETAT" -> 7

ClearData_Keep(d) == d

ClearData(d) == ZeroData

(* The buffer of a freshly constructed Linky object.                       *)
ZeroBuffer == [i \in 0..(BUFFER_SIZE - 1) |-> 0]

----------------------------------------------------------------------------
(* Linky::checksum without line 291.                                       *)
checksum_NoSeparator(label, value) ==
    BitAnd(SumBytes(label) + SumBytes(value), 63) + 32

(* Linky::checksum (lines 284-297).                                        *)
checksum(label, value) ==
    LET S1 == SumBytes(label) + GROUP_SEPARATOR + SumBytes(value)
    IN  BitAnd(S1, 63) + 32

(* strtoul(value, NULL, 10) with a 32-bit unsigned long: white space is    *)
(* skipped, a sign is accepted, the digits are read up to the first other  *)
(* byte, and a value that does not fit is returned as ULONG_MAX.           *)
IsSpace(c) == c \in {9, 10, 11, 12, 13, 32}
IsDigit(c) == c >= 48 /\ c <= 57

RECURSIVE SkipSpace(_)
SkipSpace(s) ==
    IF s # <<>> /\ IsSpace(Head(s)) THEN SkipSpace(Tail(s)) ELSE s

(* acc * 10 + d on unsigned longs; the high half is Half once the value   *)
(* has left the range, and stays so.                                       *)
MulAdd(acc, d) ==
    LET low == acc[2] * 10 + d
        high == acc[1] * 10 + low \div Half
    IN  IF acc[1] >= Half \/ high >= Half THEN <<Half, 0>>
        ELSE <<high, low % Half>>

RECURSIVE Digits(_, _)
Digits(s, acc) ==
    IF s = <<>> \/ ~IsDigit(Head(s)) THEN acc
    ELSE Digits(Tail(s), MulAdd(acc, Head(s) - 48))

(* 0 - v on unsigned longs.                                                *)
Negate(v) ==
    <<(Half - v[1] - (IF v[2] = 0 THEN 0 ELSE 1)) % Half, (Half - v[2]) % Half>>

strtoul(value) ==
    LET t == SkipSpace(value)
        neg == t # <<>> /\ Head(t) = 45
        signed == t # <<>> /\ Head(t) \in {43, 45}
        v == Digits(IF signed THEN Tail(t) ELSE t, <<0, 0>>)
    IN  IF v[1] >= Half THEN ULONG_MAX
        ELSE IF neg THEN Negate(v)
        ELSE v

----------------------------------------------------------------------------
(* The body of the first loop with a start of frame that is kept once it   *)
(* is found.                                                               *)
FrameStep_KeepFirst(buf, i, st) ==
    IF st[2] # UINT_MAX THEN st
    ELSE IF buf[i] = START_OF_FRAME /\ st[1] = UINT_MAX THEN <<i, st[2]>>
    ELSE IF buf[i] = END_OF_FRAME /\ UGreater(i, st[1]) THEN <<st[1], i>>
    ELSE st

(* First step of decode (lines 92-105).  FrameStep is the body of the loop *)
(* for index i; st is <<startOfFrame, endOfFrame>>, and the break leaves   *)
(* the loop as soon as endOfFrame is set.  FrameLoop runs the iterations   *)
(* lo .. hi - 1 in order.                                                  *)
FrameStep(buf, i, st) ==
    IF st[2] # UINT_MAX THEN st
    ELSE IF buf[i] = START_OF_FRAME THEN <<i, st[2]>>
    ELSE IF buf[i] = END_OF_FRAME /\ UGreater(i, st[1]) THEN <<st[1], i>>
    ELSE st

RECURSIVE FrameLoop(_, _, _, _)
FrameLoop(buf, lo, hi, st) ==
    IF lo >= hi THEN st
    ELSE IF hi - lo = 1 THEN FrameStep(buf, lo, st)
    ELSE LET mid == (lo + hi) \div 2
         IN  CHOOSE r \in {FrameLoop(buf, mid, hi, m) :
                              m \in {FrameLoop(buf, lo, mid, st)}} : TRUE

(* The test of line 107 without its first operand.                         *)
FrameAbsent_NoEndTest(sof, eof) == sof = UINT_MAX \/ UGreater(sof, eof)

(* The test of line 107.                                                   *)
FrameAbsent(sof, eof) ==
    eof = UINT_MAX \/ sof = UINT_MAX \/ UGreater(sof, eof)

(* char frame[200] = {0}; memcpy(frame, buffer + startOfFrame, n)          *)
(* (lines 115-116): the part of the copy that lies inside frame.           *)
CopyFrame(buf, sof, n) ==
    [k \in 0..(FrameCap - 1) |->
        IF k < n /\ sof + k < BUFFER_SIZE THEN buf[sof + k] ELSE 0]

(* Second step (lines 126-139).  GroupStep is the body of the loop for     *)
(* index i; st is <<sog, eog>>, the stored parts of startOfGroup and       *)
(* endOfGroup, whose lengths are startOfGroupIndex and endOfGroupIndex.    *)
(* GroupLoop runs the iterations lo .. hi - 1 in order.                    *)
GroupStep(frame, i, st) ==
    IF frame[i] = START_OF_GROUP THEN <<Append(st[1], i), st[2]>>
    ELSE IF frame[i] = END_OF_GROUP THEN <<st[1], Append(st[2], i)>>
    ELSE st

RECURSIVE GroupLoop(_, _, _, _)
GroupLoop(frame, lo, hi, st) ==
    IF lo >= hi THEN st
    ELSE IF hi - lo = 1 THEN GroupStep(frame, lo, st)
    ELSE LET mid == (lo + hi) \div 2
         IN  CHOOSE r \in {GroupLoop(frame, mid, hi, m) :
                              m \in {GroupLoop(frame, lo, mid, st)}} : TRUE

(* Element k of an index array declared "= {UINT_MAX}" (lines 121-122)     *)
(* of which the first Len(stored) elements have been assigned.             *)
GroupAt(stored, k) ==
    IF k < Len(stored) THEN stored[k + 1]
    ELSE IF k = 0 THEN UINT_MAX ELSE 0

(* The tests of lines 141 and 147.                                         *)
NoGroup(sog, eog) == GroupAt(sog, 0) = UINT_MAX \/ GroupAt(eog, 0) = UINT_MAX
CountMismatch(sog, eog) == Len(sog) # Len(eog)

(* Third step, the loop of lines 160-166 over one group.  SeparatorStep    *)
(* is its body for index j; seps is the stored part of separatorIndex.     *)
(* SeparatorLoop runs the iterations lo .. hi - 1 in order.                *)
SeparatorStep(frame, j, seps) ==
    IF frame[j] = GROUP_SEPARATOR THEN Append(seps, j) ELSE seps

RECURSIVE SeparatorLoop(_, _, _, _)
SeparatorLoop(frame, lo, hi, seps) ==
    IF ~ULess(lo, hi) THEN seps
    ELSE IF hi - lo = 1 THEN SeparatorStep(frame, lo, seps)
    ELSE LET mid == (lo + hi) \div 2
         IN  CHOOSE r \in {SeparatorLoop(frame, mid, hi, m) :
                              m \in {SeparatorLoop(frame, lo, mid, seps)}} : TRUE

(* Element k of separatorIndex, declared "= {0}" (line 159).               *)
SeparatorAt(seps, k) == IF k < Len(seps) THEN seps[k + 1] ELSE 0

(* A memcpy length that is a wrapped negative difference: 2^31 or more.    *)
Wild(n) == n < 0

(* Lines 168-175 for the group between sogi and eogi of a frame of n       *)
(* groups, with seps the separator indices the loop stored: the three      *)
(* texts carved out of the group.  wild: a memcpy length is a wrapped      *)
(* negative number.  oob: an access outside an array (separatorIndex has   *)
(* n + 1 elements, label 10, value 20, checksum 5; a label or value that   *)
(* fills its array has no terminating NUL).  room is the number of         *)
(* elements of separatorIndex, lengths the three memcpy lengths.           *)
Carve(frame, sogi, eogi, n, seps) ==
    LET s0 == SeparatorAt(seps, 0)
        s1 == SeparatorAt(seps, 1)
        n1 == s0 - sogi - 1
        n2 == s1 - s0 - 1
        n3 == eogi - s1 - 1
        wild == Wild(n1) \/ Wild(n2) \/ Wild(n3)
    IN  [wild |-> wild,
         oob |-> \/ Len(seps) > n + 1
                 \/ n1 >= LabelCap
                 \/ n2 >= ValueCap
                 \/ n3 > ChecksumCap,
         start |-> sogi,
         separators |-> Len(seps),
         room |-> n + 1,
         lengths |-> <<n1, n2, n3>>,
         label |-> IF wild THEN <<>> ELSE CStr(Slice(frame, sogi + 1, n1)),
         value |-> IF wild THEN <<>> ELSE CStr(Slice(frame, s0 + 1, n2)),
         checksum |-> IF wild \/ n3 = 0 THEN 0 ELSE frame[s1 + 1]]

(* Lines 159-175 for the group between sogi and eogi.                      *)
Field(frame, sogi, eogi, n) ==
    CHOOSE f \in {Carve(frame, sogi, eogi, n, seps) :
                    seps \in {SeparatorLoop(frame, sogi, eogi, <<>>)}} : TRUE

(* The test of line 177, negated: the field is accepted.                   *)
ChecksumOk(label, value, carried) == checksum(label, value) = carried

(* Fourth step (lines 187-234): the strcmp chain.                          *)
Dispatch(d, label, value) ==
    IF label = ADCO THEN [d EXCEPT !["ADCO"] = strtoul(value)]
    ELSE IF label = OPTARIF THEN [d EXCEPT !["OPTARIF"] = value]
    ELSE IF label = ISOUSC THEN [d EXCEPT !["ISOUSC"] = strtoul(value)]
    ELSE IF label = BASE THEN [d EXCEPT !["BASE"] = strtoul(value)]
    ELSE IF label = HCHC THEN [d EXCEPT !["HCHC"] = strtoul(value)]
    ELSE IF label = HCHP THEN [d EXCEPT !["HCHP"] = strtoul(value)]
    ELSE IF label = PTEC THEN [d EXCEPT !["PTEC"] = value]
    ELSE IF label = IINST THEN [d EXCEPT !["IINST"] = strtoul(value)]
    ELSE IF label = IMAX THEN [d EXCEPT !["IMAX"] = strtoul(value)]
    ELSE IF label = PAPP THEN [d EXCEPT !["PAPP"] = strtoul(value)]
    ELSE IF label = HHPHC THEN [d EXCEPT !["HHPHC"] = value]
    ELSE IF label = MOTDETAT THEN [d EXCEPT !["MOTDETAT"] = value]
    ELSE d

(* Lines 177-235 for the carved field f of group i: the record and the     *)
(* trace after it.  A trace entry holds the index of the group, the index  *)
(* of its start marker in the frame, the number of separators found and    *)
(* the number separatorIndex has room for, the lengths of the three        *)
(* copies, the three texts, the checksum computed and the branch taken at  *)
(* line 177.                                                               *)
FieldStep(st, i, f) ==
    IF f.wild THEN [st EXCEPT !.wild = TRUE]
    ELSE [data |-> IF ChecksumOk(f.label, f.value, f.checksum)
                   THEN Dispatch(st.data, f.label, f.value)
                   ELSE st.data,
          trace |-> Append(st.trace,
                      [group |-> i,
                       start |-> f.start,
                       separators |-> f.separators,
                       room |-> f.room,
                       lengths |-> f.lengths,
                       label |-> f.label,
                       value |-> f.value,
                       checksum |-> f.checksum,
                       computed |-> checksum(f.label, f.value),
                       accepted |-> ChecksumOk(f.label, f.value, f.checksum)]),
          oob |-> st.oob \/ f.oob,
          wild |-> FALSE]

(* The loop of lines 157-236 from group i.  st.data is the record so far,  *)
(* st.trace the fields compared so far; a wild memcpy ends the loop.       *)
RECURSIVE FieldLoop(_, _, _, _, _)
FieldLoop(frame, sog, eog, i, st) ==
    IF i >= Len(sog) \/ st.wild THEN st
    ELSE CHOOSE r \in
           {FieldLoop(frame, sog, eog, i + 1, next) :
              next \in {FieldStep(st, i, f) :
                 f \in {Field(frame, GroupAt(sog, i), GroupAt(eog, i),
                              Len(sog))}}} : TRUE

(* Lines 141-237, with the frame copied and sog, eog the group indices     *)
(* found in it; over says that the copy or the indices left their array.   *)
DecodeGroups(frame, sog, eog, over, failed) ==
    IF NoGroup(sog, eog) \/ CountMismatch(sog, eog)
    THEN [failed EXCEPT !.oob = over]
    ELSE CHOOSE r \in
           {[failed EXCEPT !.ret = 1, !.data = st.data, !.trace = st.trace,
                           !.oob = st.oob, !.wild = st.wild] :
              st \in {FieldLoop(frame, sog, eog, 0,
                        [data |-> failed.data, trace |-> <<>>, oob |-> over,
                         wild |-> FALSE])}} : TRUE

(* Lines 107-237, with the frame limits found.  failed is the outcome of   *)
(* a return 0 before any group is read.                                    *)
DecodeFrame(buf, cleared, sof, eof) ==
    LET failed == [ret |-> 0, data |-> cleared, startOfFrame |-> sof,
                   endOfFrame |-> eof, trace |-> <<>>, oob |-> FALSE,
                   wild |-> FALSE]
        n == eof - sof
    IN  IF FrameAbsent(sof, eof) THEN failed
        ELSE IF Wild(n) THEN [failed EXCEPT !.wild = TRUE]
        ELSE CHOOSE r \in
               {DecodeGroups(CopyFrame(buf, sof, n), g[1], g[2],
                             \/ n > FrameCap
                             \/ Len(g[1]) > GROUP_COUNT
                             \/ Len(g[2]) > GROUP_COUNT,
                             failed) :
                  g \in {GroupLoop(CopyFrame(buf, sof, n), 0, FRAME_SIZE,
                                   <<<<>>, <<>>>>)}} : TRUE

(* Linky::decode (lines 86-237) on the buffer as uart_read_bytes left it,  *)
(* with d0 the record of the previous cycle.  ret and data are the return  *)
(* value and the record if every access stays inside its array; oob says   *)
(* that some access did not, wild that a memcpy had a wrapped length.      *)
decode(buf, d0) ==
    CHOOSE r \in
      {DecodeFrame(buf, ClearData(d0), fr[1], fr[2]) :
         fr \in {FrameLoop(buf, 0, BUFFER_SIZE, <<UINT_MAX, UINT_MAX>>)}} : TRUE

----------------------------------------------------------------------------
(* The meter: what it puts on the serial line.                             *)

(* The checksum of a group as the protocol defines it.                     *)
MeterChecksum(label, value) ==
    ((SumBytes(label) + GROUP_SEPARATOR + SumBytes(value)) % 64) + 32

Group(label, value, c) ==
    <<START_OF_GROUP>> \o label \o <<GROUP_SEPARATOR>> \o value
        \o <<GROUP_SEPARATOR, c>> \o <<END_OF_GROUP>>

Valid(label, value) == Group(label, value, MeterChecksum(label, value))

(* ADCO 031258549200, OPTARIF BASE, HCHP 001521211 (its checksum is the    *)
(* space), IINST 002.                                                      *)
AdcoValue == <<48, 51, 49, 50, 53, 56, 53, 52, 57, 50, 48, 48>>
GroupAdco == Valid(ADCO, AdcoValue)
GroupOptarif == Valid(OPTARIF, BASE)
GroupHchp == Valid(HCHP, <<48, 48, 49, 53, 50, 49, 50, 49, 49>>)
GroupIinst == Valid(IINST, <<48, 48, 50>>)

(* The other eight labels, with values of the historical mode.             *)
OtherValid ==
    { Valid(ISOUSC, <<51, 48>>),
      Valid(BASE, <<48, 48, 50, 53, 54, 53, 50, 56, 53>>),
      Valid(HCHC, <<48, 48, 49, 48, 54, 53, 57, 54, 51>>),
      Valid(PTEC, <<84, 72, 46, 46>>),
      Valid(IMAX, <<48, 57, 48>>),
      Valid(PAPP, <<48, 48, 52, 50, 48>>),
      Valid(HHPHC, <<65>>),
      Valid(MOTDETAT, <<48, 48, 48, 48, 48, 48>>) }

(* Damaged or foreign groups: a wrong checksum byte ('Z' instead of 'Y'),  *)
(* a wrong checksum byte that is the space, a group with one separator,    *)
(* a group without separator, the label FOOBAR with its checksum and with  *)
(* the space in its place, the label adco, a label of 11 bytes, a value of *)
(* 21 bytes.                                                               *)
FOOBAR == <<70, 79, 79, 66, 65, 82>>
GroupBadSum == Group(IINST, <<48, 48, 50>>, 90)
GroupBadSpace == Group(IMAX, <<48, 57, 48>>, GROUP_SEPARATOR)
GroupOneSep ==
    <<START_OF_GROUP>> \o PAPP \o <<GROUP_SEPARATOR, 52, 50, END_OF_GROUP>>
GroupNoSep == <<START_OF_GROUP>> \o PAPP \o <<END_OF_GROUP>>
GroupFoobar == Valid(FOOBAR, <<49>>)
GroupFoobarSpace == Group(FOOBAR, <<49>>, GROUP_SEPARATOR)
GroupLower == Valid(<<97, 100, 99, 111>>, <<52, 50>>)
GroupLongLabel == Valid(MOTDETAT \o <<88, 88, 88>>, <<49>>)
GroupLongValue == Valid(BASE, AdcoValue \o <<48, 48, 50, 53, 54, 53, 50, 56, 53>>)

(* The groups that are combined into frames of several groups, and the     *)
(* groups that are only sent alone.                                        *)
CoreGroups ==
    {GroupAdco, GroupOptarif, GroupHchp, GroupBadSum, GroupOneSep,
     GroupFoobar}
LoneGroups ==
    OtherValid \cup {GroupIinst, GroupBadSpace, GroupFoobarSpace, GroupNoSep,
                     GroupLower,
                     GroupLongLabel, GroupLongValue,
                     <<START_OF_GROUP>>, <<END_OF_GROUP>>,
                     <<END_OF_GROUP, START_OF_GROUP>>}

RECURSIVE Bodies(_)
Bodies(k) ==
    IF k = 0 THEN {<<>>}
    ELSE LET shorter == Bodies(k - 1)
         IN  shorter \cup {b \o g : b \in shorter, g \in CoreGroups}

Run(byte, k) == [i \in 1..k |-> byte]

(* What the meter has sent before the first poll: a frame of up to         *)
(* MaxGroups groups, or a single group in a damaged envelope, or a run of  *)
(* group markers, or a frame longer than the frame array, with a group or  *)
(* without.                                                                *)
Frames ==
    LET one == Bodies(1) \cup LoneGroups
    IN  {<<START_OF_FRAME>> \o b \o <<END_OF_FRAME>> : b \in Bodies(MaxGroups) \cup one}
        \cup {b \o <<END_OF_FRAME>> : b \in one}
        \cup {<<START_OF_FRAME>> \o b : b \in one}
        \cup {<<END_OF_FRAME, START_OF_FRAME>> \o b \o <<END_OF_FRAME>> : b \in one}
        \cup {<<START_OF_FRAME>> \o b \o <<START_OF_FRAME>> \o b \o <<END_OF_FRAME, END_OF_FRAME>> : b \in one}
        \cup {<<END_OF_FRAME>> \o b \o <<START_OF_FRAME>> : b \in one}
        \cup {<<START_OF_FRAME>> \o Run(END_OF_GROUP, GROUP_COUNT + 1) \o <<END_OF_FRAME>>,
              <<START_OF_FRAME>> \o Run(START_OF_GROUP, GROUP_COUNT + 1) \o <<END_OF_FRAME>>,
              <<START_OF_FRAME>> \o GroupAdco \o Run(GROUP_SEPARATOR, FrameCap) \o <<END_OF_FRAME>>,
              <<START_OF_FRAME>> \o Run(GROUP_SEPARATOR, FrameCap) \o <<END_OF_FRAME>>}

(* What the meter sends between two later polls.                           *)
Bursts ==
    { <<END_OF_FRAME>>,
      <<START_OF_FRAME>> \o GroupIinst \o <<END_OF_FRAME>>,
      <<START_OF_FRAME>> \o GroupBadSum,
      <<32, 32>> }

----------------------------------------------------------------------------
(* The Wi-Fi connection (lines 418-678).  The state is a record:           *)
(*   wifi_connected, s_retry_num   the statics of these names              *)
(*   s_wifi_event_group            the bits set in the event group the     *)
(*                                 handle designates                       *)
(*   instance_any_id, instance_got_ip  whether the handler instance is     *)
(*                                 registered                              *)
(*   sta_netif                     whether the station interface exists    *)
(*   groups                        event groups created and not deleted    *)
(*   loop                          whether the default event loop exists   *)
(*   driver                        "none", "init" or "started"             *)
(*   link     "off", "starting" (WIFI_EVENT_STA_START is posted), "idle",  *)
(*            "connecting" (esp_wifi_connect is under way), "associated",  *)
(*            "up"                                                         *)
(*   at       "out": no call of wifi_connect is running, "waiting": a call *)
(*            is in xEventGroupWaitBits (line 540)                         *)
(*   returned, why                 value and place of the last return of   *)
(*                                 wifi_connect                            *)
(*   calls, timeouts               calls of wifi_connect and timeouts of   *)
(*                                 the wait so far                         *)
ESP_MAXIMUM_RETRY == 3
WIFI_CONNECTED_BIT == 1
WIFI_FAIL_BIT == 2

MaxCalls == 3
MaxTimeouts == 1

WifiOff ==
    [wifi_connected |-> 0, s_retry_num |-> 0, s_wifi_event_group |-> {},
     instance_any_id |-> FALSE, instance_got_ip |-> FALSE,
     sta_netif |-> FALSE, groups |-> 0, loop |-> FALSE, driver |-> "none",
     link |-> "off", at |-> "out", returned |-> 0, why |-> "none",
     calls |-> 0, timeouts |-> 0]

(* wifi_disconnect (lines 569-622).                                        *)
wifi_disconnect(w) ==
    IF w.wifi_connected = 0 THEN w
    ELSE [w EXCEPT !.wifi_connected = 0,
                   !.instance_got_ip = FALSE,
                   !.instance_any_id = FALSE,
                   !.link = "off",
                   !.driver = "none",
                   !.groups = IF @ > 0 THEN @ - 1 ELSE 0,
                   !.s_wifi_event_group = {},
                   !.loop = FALSE,
                   !.sta_netif = FALSE]

(* wifi_event_handler (lines 624-678) for the events of the station.       *)
(* esp_wifi_connect starts an attempt of the driver.                       *)
wifi_event_handler(w, event) ==
    IF event = "WIFI_EVENT_STA_START"
    THEN [w EXCEPT !.wifi_connected = 0, !.link = "connecting"]
    ELSE IF event = "WIFI_EVENT_STA_DISCONNECTED"
    THEN IF w.s_retry_num < ESP_MAXIMUM_RETRY
         THEN [w EXCEPT !.wifi_connected = 0,
                        !.link = "connecting",
                        !.s_retry_num = @ + 1]
         ELSE [w EXCEPT !.wifi_connected = 0,
                        !.link = "idle",
                        !.s_wifi_event_group = @ \cup {WIFI_FAIL_BIT}]
    ELSE IF event = "WIFI_EVENT_STA_CONNECTED"
    THEN [w EXCEPT !.wifi_connected = 1, !.link = "associated"]
    ELSE IF event = "IP_EVENT_STA_GOT_IP"
    THEN [w EXCEPT !.s_retry_num = 0,
                   !.wifi_connected = 1,
                   !.link = "up",
                   !.s_wifi_event_group = @ \cup {WIFI_CONNECTED_BIT}]
    ELSE w

(* The calls of the platform that wifi_connect tests, from esp_wifi_init   *)
(* on, in the order of the code; "none": all of them succeed.              *)
Faults ==
    {"none", "esp_wifi_init", "register_any_id", "register_got_ip",
     "esp_wifi_set_mode", "esp_wifi_set_config", "esp_wifi_start"}

(* An error return of wifi_connect (for instance lines 473-476).           *)
ErrorReturn(w) ==
    [wifi_disconnect([w EXCEPT !.wifi_connected = 2])
        EXCEPT !.returned = 0, !.why = "error", !.at = "out"]

(* wifi_connect from its entry to the wait of line 540 or to an earlier    *)
(* return (lines 418-538).  credentials: config_values holds an SSID and a *)
(* password; fault: the call of the platform that fails.  The default      *)
(* event loop cannot be created while one exists.                          *)
wifi_connect(w, credentials, fault) ==
    IF w.wifi_connected # 0
    THEN [w EXCEPT !.returned = 1, !.why = "connected already"]
    ELSE IF ~credentials
    THEN [w EXCEPT !.returned = 0, !.why = "no credentials"]
    ELSE LET created == [w EXCEPT !.s_retry_num = 0,
                                  !.s_wifi_event_group = {},
                                  !.groups = @ + 1]
             netif == [created EXCEPT !.loop = TRUE, !.sta_netif = TRUE]
             init == [netif EXCEPT !.driver = "init"]
             any == [init EXCEPT !.instance_any_id = TRUE]
             ip == [any EXCEPT !.instance_got_ip = TRUE]
         IN  IF w.loop THEN ErrorReturn(created)
             ELSE IF fault = "esp_wifi_init" THEN ErrorReturn(netif)
             ELSE IF fault = "register_any_id" THEN ErrorReturn(init)
             ELSE IF fault = "register_got_ip" THEN ErrorReturn(any)
             ELSE IF fault # "none" THEN ErrorReturn(ip)
             ELSE [ip EXCEPT !.driver = "started",
                             !.link = "starting",
                             !.at = "waiting"]

(* The end of wifi_connect after xEventGroupWaitBits returned with bits    *)
(* (lines 548-559).                                                        *)
AfterWait(w, bits) ==
    IF WIFI_CONNECTED_BIT \in bits
    THEN [w EXCEPT !.returned = 1, !.why = "connected", !.at = "out"]
    ELSE [wifi_disconnect(w)
            EXCEPT !.returned = 0, !.why = "failed", !.at = "out"]

----------------------------------------------------------------------------
Init ==
    /\ buffer = ZeroBuffer
    /\ data = ZeroData
    /\ rx \in Frames
    /\ pc = "boot"
    /\ result = 0
    /\ rxBytes = 0
    /\ startOfFrame = UINT_MAX
    /\ endOfFrame = UINT_MAX
    /\ trace = <<>>
    /\ sent = 0
    /\ wifi = WifiOff

(* uart_read_bytes(UART_NUM_1, buffer, RX_BUF_SIZE, ...) (line 83): the    *)
(* first n queued bytes overwrite buffer[0..n-1]; the rest of the buffer   *)
(* keeps what it held.                                                     *)
ReadCount(queue) == Min(Len(queue), RX_BUF_SIZE)
ReadInto(buf, queue) ==
    [i \in 0..(BUFFER_SIZE - 1) |->
        IF i < ReadCount(queue) THEN queue[i + 1] ELSE buf[i]]

(* A call of Linky::decode that returns.  A call in which an access left   *)
(* its array may return, with the result it has if the stray access hit    *)
(* nothing the call uses; a call with a wild memcpy does not return.       *)
DecodeReturns ==
    /\ pc # "crashed"
    /\ \E buf \in {ReadInto(buffer, rx)} :
         \E run \in {decode(buf, data)} :
           /\ ~run.wild
           /\ buffer' = buf
           /\ rxBytes' = ReadCount(rx)
           /\ rx' = SubSeq(rx, ReadCount(rx) + 1, Len(rx))
           /\ data' = run.data
           /\ result' = run.ret
           /\ startOfFrame' = run.startOfFrame
           /\ endOfFrame' = run.endOfFrame
           /\ trace' = run.trace
           /\ pc' = "idle"
    /\ UNCHANGED <<sent, wifi>>

(* A call of Linky::decode that traps: an access outside an array, or a    *)
(* wild memcpy, hit memory the processor protects or the call needs.       *)
DecodeTraps ==
    /\ pc # "crashed"
    /\ \E buf \in {ReadInto(buffer, rx)} :
         \E run \in {decode(buf, data)} :
           /\ run.wild \/ run.oob
           /\ buffer' = buf
           /\ rxBytes' = ReadCount(rx)
           /\ rx' = SubSeq(rx, ReadCount(rx) + 1, Len(rx))
           /\ data' = run.data
           /\ startOfFrame' = run.startOfFrame
           /\ endOfFrame' = run.endOfFrame
           /\ trace' = run.trace
           /\ pc' = "crashed"
    /\ UNCHANGED <<result, sent, wifi>>

(* The meter sends again while the device is between two polls.            *)
Receive ==
    /\ pc = "idle"
    /\ rx = <<>>
    /\ sent < MaxSent
    /\ \E b \in Bursts : rx' = b
    /\ sent' = sent + 1
    /\ UNCHANGED <<buffer, data, pc, result, rxBytes, startOfFrame,
                   endOfFrame, trace, wifi>>

(* The device restarts after a trap: the object is constructed again.      *)
Reboot ==
    /\ pc = "crashed"
    /\ buffer' = ZeroBuffer
    /\ data' = ZeroData
    /\ rx' = <<>>
    /\ pc' = "boot"
    /\ result' = 0
    /\ rxBytes' = 0
    /\ startOfFrame' = UINT_MAX
    /\ endOfFrame' = UINT_MAX
    /\ trace' = <<>>
    /\ UNCHANGED <<sent, wifi>>

Next == DecodeReturns \/ DecodeTraps \/ Receive \/ Reboot

Spec == Init /\ [][Next]_vars

----------------------------------------------------------------------------
(* The Wi-Fi connection as a system of its own: the application calls      *)
(* wifi_connect and wifi_disconnect, the event task runs the handler for   *)
(* the events of the driver, the decoder is at rest.                       *)
WifiInit ==
    /\ buffer = ZeroBuffer
    /\ data = ZeroData
    /\ rx = <<>>
    /\ pc = "boot"
    /\ result = 0
    /\ rxBytes = 0
    /\ startOfFrame = UINT_MAX
    /\ endOfFrame = UINT_MAX
    /\ trace = <<>>
    /\ sent = 0
    /\ wifi = WifiOff

(* A call of wifi_connect, up to its wait or to an earlier return.         *)
Connect ==
    /\ wifi.at = "out"
    /\ wifi.calls < MaxCalls
    /\ \E credentials \in BOOLEAN, fault \in Faults :
          wifi' = [wifi_connect(wifi, credentials, fault)
                     EXCEPT !.calls = @ + 1]
    /\ UNCHANGED linkyVars

(* The driver, started, posts WIFI_EVENT_STA_START.                        *)
OnStaStart ==
    /\ wifi.link = "starting"
    /\ wifi.instance_any_id
    /\ wifi' = wifi_event_handler(wifi, "WIFI_EVENT_STA_START")
    /\ UNCHANGED linkyVars

(* An attempt of the driver fails, or the station loses its access point.  *)
OnStaDisconnected ==
    /\ wifi.link \in {"connecting", "associated", "up"}
    /\ wifi.instance_any_id
    /\ wifi' = wifi_event_handler(wifi, "WIFI_EVENT_STA_DISCONNECTED")
    /\ UNCHANGED linkyVars

(* An attempt of the driver succeeds.                                      *)
OnStaConnected ==
    /\ wifi.link = "connecting"
    /\ wifi.instance_any_id
    /\ wifi' = wifi_event_handler(wifi, "WIFI_EVENT_STA_CONNECTED")
    /\ UNCHANGED linkyVars

(* The station, associated, gets its address.                              *)
OnGotIp ==
    /\ wifi.link = "associated"
    /\ wifi.instance_got_ip
    /\ wifi' = wifi_event_handler(wifi, "IP_EVENT_STA_GOT_IP")
    /\ UNCHANGED linkyVars

(* xEventGroupWaitBits returns with a bit set and wifi_connect returns.    *)
WaitReturns ==
    /\ wifi.at = "waiting"
    /\ wifi.s_wifi_event_group # {}
    /\ wifi' = AfterWait(wifi, wifi.s_wifi_event_group)
    /\ UNCHANGED linkyVars

(* xEventGroupWaitBits times out and wifi_connect waits again (line 561).  *)
WaitTimesOut ==
    /\ wifi.at = "waiting"
    /\ wifi.s_wifi_event_group = {}
    /\ wifi.timeouts < MaxTimeouts
    /\ wifi' = [wifi EXCEPT !.timeouts = @ + 1]
    /\ UNCHANGED linkyVars

(* The application calls wifi_disconnect.                                  *)
Disconnect ==
    /\ wifi.at = "out"
    /\ wifi' = wifi_disconnect(wifi)
    /\ UNCHANGED linkyVars

WifiNext ==
    \/ Connect \/ OnStaStart \/ OnStaDisconnected \/ OnStaConnected
    \/ OnGotIp \/ WaitReturns \/ WaitTimesOut \/ Disconnect

WifiSpec == WifiInit /\ [][WifiNext]_vars

----------------------------------------------------------------------------
(* Notions the properties below share.                                     *)

Indices == 0..(BUFFER_SIZE - 1)

(* A decode has been attempted on the present buffer.                      *)
Polled == pc # "boot"

(* The last call got past line 113: it extracted a frame.                  *)
Extracted == Polled /\ endOfFrame # UINT_MAX

(* Some start-of-frame marker is followed by an end-of-frame marker.       *)
HasFrame(buf) ==
    \E j \in Indices :
        buf[j] = END_OF_FRAME /\ \E i \in 0..(j - 1) : buf[i] = START_OF_FRAME

(* The bytes of t stand in buf from index p on.                            *)
Spells(buf, p, t) ==
    /\ p >= 0
    /\ p + Len(t) <= BUFFER_SIZE
    /\ \A m \in 1..Len(t) : buf[p + m - 1] = t[m]

(* The last entry of the trace that was accepted with the label of slot,   *)
(* 0 if there is none.                                                     *)
AcceptedFor(slot) ==
    LET hits == {k \in 1..Len(trace) :
                    trace[k].accepted /\ trace[k].label = LabelOf(slot)}
    IN  IF hits = {} THEN 0 ELSE CHOOSE k \in hits : \A h \in hits : h <= k

----------------------------------------------------------------------------
(* C2.  Every checksum decode() computed is ((sum of the label bytes + the *)
(* separator + sum of the value bytes) AND 0x3F) + 0x20, written here with *)
(* the remainder of the division by 64; the field was accepted exactly     *)
(* when that byte equals the byte that follows the second separator of the *)
(* group in the buffer; and for ADCO 031258549200 the byte is 0x3E.        *)
C2_ChecksumRule ==
    \A k \in 1..Len(trace) :
        LET e == trace[k]
            sum == SumBytes(e.label) + GROUP_SEPARATOR + SumBytes(e.value)
            carried == startOfFrame + e.start + Len(e.label) + Len(e.value) + 3
        IN  /\ e.computed = (sum % 64) + 32
            /\ Spells(buffer, startOfFrame + e.start + 1,
                      e.label \o <<GROUP_SEPARATOR>> \o e.value
                          \o <<GROUP_SEPARATOR>>)
            /\ e.accepted <=> buffer[carried] = (sum % 64) + 32
            /\ (e.label = ADCO /\ e.value = AdcoValue) => e.computed = 62

(* The group ADCO 031258549200 > was accepted and a group with another     *)
(* checksum byte than the computed one was refused.                        *)
C2_Witness ==
    /\ pc = "idle"
    /\ \E k \in 1..Len(trace) :
          /\ trace[k].label = ADCO
          /\ trace[k].value = AdcoValue
          /\ trace[k].checksum = 62
          /\ trace[k].accepted
    /\ \E k \in 1..Len(trace) : ~trace[k].accepted

----------------------------------------------------------------------------
(* C4.  After a decode of a buffer that holds no start-of-frame marker, or *)
(* no end-of-frame marker after a start-of-frame marker, or whose          *)
(* end-of-frame markers all precede all its start-of-frame markers, the    *)
(* call has returned 0, every slot of the record is zero or empty, and no  *)
(* group was compared or dispatched.                                       *)
NoStart(buf) == \A i \in Indices : buf[i] # START_OF_FRAME

NoEndAfterStart(buf) ==
    \A j \in Indices :
        buf[j] = END_OF_FRAME => \A i \in 0..(j - 1) : buf[i] # START_OF_FRAME

EndsPrecedeStarts(buf) ==
    /\ \E i \in Indices : buf[i] = START_OF_FRAME
    /\ \E j \in Indices : buf[j] = END_OF_FRAME
    /\ \A j \in Indices :
          buf[j] = END_OF_FRAME =>
              \A i \in Indices : buf[i] = START_OF_FRAME => j < i

C4_NoFrameFails ==
    (Polled /\ (\/ NoStart(buffer)
                \/ NoEndAfterStart(buffer)
                \/ EndsPrecedeStarts(buffer)))
        => /\ pc = "idle"
           /\ result = 0
           /\ data = ZeroData
           /\ trace = <<>>

(* A decode failed on a buffer whose only end-of-frame marker precedes its *)
(* start-of-frame marker, and that holds a checksum-valid group.           *)
C4_Witness ==
    /\ pc = "idle"
    /\ result = 0
    /\ data = ZeroData
    /\ EndsPrecedeStarts(buffer)
    /\ Spells(buffer, 0, <<END_OF_FRAME>> \o GroupAdco \o <<START_OF_FRAME>>)

----------------------------------------------------------------------------
(* C9.  A frame is extracted exactly when some start-of-frame marker is    *)
(* followed by an end-of-frame marker.  The extracted frame ends at the    *)
(* first end-of-frame marker that follows a start-of-frame marker and      *)
(* begins at the last start-of-frame marker before it: startOfFrame <      *)
(* endOfFrame, and no frame marker lies strictly between the two.          *)
C9_LastStartFirstEnd ==
    Polled =>
        /\ Extracted <=> HasFrame(buffer)
        /\ Extracted =>
            /\ startOfFrame >= 0
            /\ startOfFrame < endOfFrame
            /\ endOfFrame < BUFFER_SIZE
            /\ buffer[startOfFrame] = START_OF_FRAME
            /\ buffer[endOfFrame] = END_OF_FRAME
            /\ \A k \in (startOfFrame + 1)..(endOfFrame - 1) :
                  buffer[k] \notin {START_OF_FRAME, END_OF_FRAME}
            /\ \A k \in 0..(startOfFrame - 1) :
                  buffer[k] = END_OF_FRAME =>
                      \A i \in 0..(k - 1) : buffer[i] # START_OF_FRAME

(* A frame was extracted from a buffer with two start-of-frame markers     *)
(* before the end-of-frame marker, and it begins at the second.            *)
C9_Witness ==
    /\ Extracted
    /\ startOfFrame > 0
    /\ \E i \in 0..(startOfFrame - 1) : buffer[i] = START_OF_FRAME
    /\ \A k \in 0..(endOfFrame - 1) : buffer[k] # END_OF_FRAME

----------------------------------------------------------------------------
(* C6.  After every call that returns, the record and the result are those *)
(* of a decode of the present buffer from an empty record; every slot      *)
(* holds what the last accepted field of this call with its label gave, or *)
(* is zero or empty when this call accepted none, and a failed call leaves *)
(* the whole record zero or empty.  A further call on an unchanged buffer  *)
(* leaves the record and the result as they are.                           *)
StoredAs(slot, value) ==
    IF slot \in NumericSlots THEN strtoul(value) ELSE value

RecordOfThisCall ==
    pc = "idle" =>
        /\ \E run \in {decode(buffer, ZeroData)} :
              data = run.data /\ result = run.ret
        /\ result = 0 => data = ZeroData
        /\ \A slot \in Slots :
              IF AcceptedFor(slot) = 0
              THEN data[slot] = ZeroData[slot]
              ELSE data[slot] = StoredAs(slot, trace[AcceptedFor(slot)].value)

SameBufferSameRecord ==
    (pc = "idle" /\ pc' = "idle" /\ buffer' = buffer)
        => (data' = data /\ result' = result)

C6_RecordFromBufferOnly == []RecordOfThisCall /\ [][SameBufferSameRecord]_vars

(* A call failed, and left an empty record, on a buffer that still holds   *)
(* the ADCO group an earlier call had dispatched: the start-of-frame       *)
(* marker before it was overwritten by the byte read in this cycle.        *)
C6_Witness ==
    /\ pc = "idle"
    /\ sent = 1
    /\ rxBytes = 1
    /\ result = 0
    /\ data = ZeroData
    /\ Spells(buffer, 0, <<END_OF_FRAME>> \o GroupAdco)

----------------------------------------------------------------------------
(* C7.  A call that returns gives the result and the record of a decode of *)
(* the bytes this cycle's read delivered, the bytes at the indices from    *)
(* rxBytes on being of no account; after a read of 0 bytes the call        *)
(* returns 0.                                                              *)
ValidPart(buf, n) == [i \in Indices |-> IF i < n THEN buf[i] ELSE 0]

C7_OnlyValidBytes ==
    pc = "idle" =>
        /\ \E run \in {decode(ValidPart(buffer, rxBytes), ZeroData)} :
              result = run.ret /\ data = run.data
        /\ rxBytes = 0 => result = 0

----------------------------------------------------------------------------
(* The frame as the protocol describes it, read from the buffer without    *)
(* the decoder: the bytes between the frame markers, cut into groups, each *)
(* group into label, value and checksum byte.                              *)

(* The bytes strictly between the two frame markers.                       *)
FrameBody ==
    [m \in 1..(endOfFrame - startOfFrame - 1) |-> buffer[startOfFrame + m]]

(* The index of the first group marker of s after index p, 0 if none.      *)
NextMarker(s, p) ==
    LET later == {k \in (p + 1)..Len(s) :
                     s[k] \in {START_OF_GROUP, END_OF_GROUP}}
    IN  IF later = {} THEN 0 ELSE CHOOSE k \in later : \A h \in later : k <= h

(* The groups of s from index p on: each runs from a start-of-group marker *)
(* to the next group marker, which is an end-of-group marker.  ok is FALSE *)
(* when the bytes are not a sequence of such groups.                       *)
RECURSIVE GroupsFrom(_, _)
GroupsFrom(s, p) ==
    IF p > Len(s) THEN [ok |-> TRUE, groups |-> <<>>]
    ELSE IF s[p] # START_OF_GROUP THEN [ok |-> FALSE, groups |-> <<>>]
    ELSE LET e == NextMarker(s, p)
         IN  IF e = 0 \/ s[e] # END_OF_GROUP
             THEN [ok |-> FALSE, groups |-> <<>>]
             ELSE LET rest == GroupsFrom(s, e + 1)
                  IN  [ok |-> rest.ok,
                       groups |-> <<SubSeq(s, p + 1, e - 1)>> \o rest.groups]

(* The indices of the separators of the group text g.                      *)
SeparatorsOf(g) == {k \in 1..Len(g) : g[k] = GROUP_SEPARATOR}

FirstSeparator(g) ==
    CHOOSE k \in SeparatorsOf(g) : \A h \in SeparatorsOf(g) : k <= h

SecondSeparator(g) ==
    LET later == SeparatorsOf(g) \ {FirstSeparator(g)}
    IN  CHOOSE k \in later : \A h \in later : k <= h

(* label SP value SP c, the label of 1 to 9 bytes, the value of at most 19 *)
(* bytes, c one byte.                                                      *)
WellFormed(g) ==
    /\ Cardinality(SeparatorsOf(g)) >= 2
    /\ FirstSeparator(g) \in 2..LabelCap
    /\ SecondSeparator(g) - FirstSeparator(g) - 1 < ValueCap
    /\ Len(g) = SecondSeparator(g) + 1

LabelIn(g) == SubSeq(g, 1, FirstSeparator(g) - 1)
ValueIn(g) == SubSeq(g, FirstSeparator(g) + 1, SecondSeparator(g) - 1)
CarriedIn(g) == g[Len(g)]

ChecksumValid(g) ==
    CarriedIn(g) =
        ((SumBytes(LabelIn(g)) + GROUP_SEPARATOR + SumBytes(ValueIn(g))) % 64)
            + 32

KnownLabels == {LabelOf(slot) : slot \in Slots}

(* The last group of gs that is well formed and checksum-valid and has the *)
(* label of slot, 0 if there is none.                                      *)
ValidFor(gs, slot) ==
    LET hits == {k \in 1..Len(gs) :
                    /\ WellFormed(gs[k])
                    /\ ChecksumValid(gs[k])
                    /\ LabelIn(gs[k]) = LabelOf(slot)}
    IN  IF hits = {} THEN 0 ELSE CHOOSE k \in hits : \A h \in hits : h <= k

(* A decimal text without its leading zeros, and the decimal text of an    *)
(* unsigned long.                                                          *)
RECURSIVE StripZeros(_)
StripZeros(t) ==
    IF Len(t) > 1 /\ t[1] = 48 THEN StripZeros(Tail(t)) ELSE t

RECURSIVE ToDecimal(_)
ToDecimal(n) ==
    LET high == n[1] \div 10
        mid == (n[1] % 10) * Half + n[2]
        low == mid \div 10
        digit == <<48 + (mid % 10)>>
    IN  IF high = 0 /\ low = 0 THEN digit
        ELSE ToDecimal(<<high, low>>) \o digit

AllDigits(t) == Len(t) > 0 /\ \A k \in 1..Len(t) : t[k] \in 48..57

(* The slot holds the value the text t states.                             *)
Holds(slot, t) ==
    IF slot \in NumericSlots /\ AllDigits(t)
    THEN ToDecimal(data[slot]) = StripZeros(t)
    ELSE data[slot] = StoredAs(slot, t)

----------------------------------------------------------------------------
(* C1.  When the frame is made of well-formed, checksum-valid groups with  *)
(* distinct labels among the twelve known ones, the call returns 1, the    *)
(* slot of every label in the frame holds the value of its group, and      *)
(* every other slot is zero or empty.                                      *)
AllValidKnownDistinct(gs) ==
    /\ Len(gs) > 0
    /\ \A k \in 1..Len(gs) :
          /\ WellFormed(gs[k])
          /\ ChecksumValid(gs[k])
          /\ LabelIn(gs[k]) \in KnownLabels
    /\ \A k, h \in 1..Len(gs) :
          LabelIn(gs[k]) = LabelIn(gs[h]) => k = h

C1_ValidFrameDecoded ==
    Extracted =>
        \A parsed \in {GroupsFrom(FrameBody, 1)} :
            (parsed.ok /\ AllValidKnownDistinct(parsed.groups))
                => /\ pc = "idle"
                   /\ result = 1
                   /\ \A slot \in Slots :
                         IF ValidFor(parsed.groups, slot) = 0
                         THEN data[slot] = ZeroData[slot]
                         ELSE Holds(slot,
                                ValueIn(parsed.groups[ValidFor(parsed.groups,
                                                               slot)]))

----------------------------------------------------------------------------
(* C3.  When the frame is made of well-formed groups of which at least one *)
(* carries another checksum byte than the computed one, the call returns   *)
(* 1, every slot that a checksum-valid group of the frame names holds what *)
(* that group gave, and every other slot, those of the mismatched groups   *)
(* included, is zero or empty.                                             *)
SomeMismatch(gs) ==
    /\ \A k \in 1..Len(gs) : WellFormed(gs[k])
    /\ \E k \in 1..Len(gs) : ~ChecksumValid(gs[k])

C3_MismatchNotFatal ==
    Extracted =>
        \A parsed \in {GroupsFrom(FrameBody, 1)} :
            (parsed.ok /\ SomeMismatch(parsed.groups))
                => /\ pc = "idle"
                   /\ result = 1
                   /\ \A slot \in Slots :
                         IF ValidFor(parsed.groups, slot) = 0
                         THEN data[slot] = ZeroData[slot]
                         ELSE data[slot] =
                                StoredAs(slot,
                                  ValueIn(parsed.groups[ValidFor(parsed.groups,
                                                                 slot)]))

----------------------------------------------------------------------------
(* C5.  When the frame holds no start-of-group marker, or no end-of-group  *)
(* marker, or not as many of the one as of the other, the call returns 0,  *)
(* no field was compared or dispatched, and the record is zero or empty.   *)
Marks(byte) == {m \in 1..Len(FrameBody) : FrameBody[m] = byte}

C5_GroupMarkersChecked ==
    (/\ Extracted
     /\ \/ Marks(START_OF_GROUP) = {}
        \/ Marks(END_OF_GROUP) = {}
        \/ Cardinality(Marks(START_OF_GROUP))
               # Cardinality(Marks(END_OF_GROUP)))
        => /\ pc = "idle"
           /\ result = 0
           /\ trace = <<>>
           /\ data = ZeroData

----------------------------------------------------------------------------
(* C8.  After a call that returns, every numeric slot for which a field    *)
(* with a value of decimal digits was accepted holds the number that the   *)
(* digits state: its decimal text is the value without its leading zeros.  *)
C8_NumericValueExact ==
    pc = "idle" =>
        \A slot \in NumericSlots :
            (/\ AcceptedFor(slot) # 0
             /\ AllDigits(trace[AcceptedFor(slot)].value))
                => ToDecimal(data[slot])
                       = StripZeros(trace[AcceptedFor(slot)].value)

----------------------------------------------------------------------------
(* C10.  When the frame is a sequence of groups of which at least one has  *)
(* fewer than two separators, the call returns 1, no field was carved out  *)
(* of such a group, and every slot holds what the last well-formed,        *)
(* checksum-valid group with its label gave, or is zero or empty.          *)
ShortOfSeparators(g) == Cardinality(SeparatorsOf(g)) < 2

C10_ShortGroupSkipped ==
    Extracted =>
        \A parsed \in {GroupsFrom(FrameBody, 1)} :
            (/\ parsed.ok
             /\ \E k \in 1..Len(parsed.groups) :
                   ShortOfSeparators(parsed.groups[k]))
                => /\ pc = "idle"
                   /\ result = 1
                   /\ \A k \in 1..Len(trace) : trace[k].separators >= 2
                   /\ \A slot \in Slots :
                         IF ValidFor(parsed.groups, slot) = 0
                         THEN data[slot] = ZeroData[slot]
                         ELSE data[slot] =
                                StoredAs(slot,
                                  ValueIn(parsed.groups[ValidFor(parsed.groups,
                                                                 slot)]))

----------------------------------------------------------------------------
(* C11.  When the frame is made of well-formed groups of which at least    *)
(* one has a label outside the twelve known ones, the call returns 1 and   *)
(* the record is the one that the groups with a known label give: every    *)
(* slot holds what the last checksum-valid group with its label gave, or   *)
(* is zero or empty.                                                       *)
HasKnownLabel(g) == LabelIn(g) \in KnownLabels

SomeUnknown(gs) ==
    /\ \A k \in 1..Len(gs) : WellFormed(gs[k])
    /\ \E k \in 1..Len(gs) : ~HasKnownLabel(gs[k])

C11_UnknownLabelIgnored ==
    Extracted =>
        \A parsed \in {GroupsFrom(FrameBody, 1)} :
            (parsed.ok /\ SomeUnknown(parsed.groups))
                => \A known \in {SelectSeq(parsed.groups, HasKnownLabel)} :
                      /\ pc = "idle"
                      /\ result = 1
                      /\ \A slot \in Slots :
                            IF ValidFor(known, slot) = 0
                            THEN data[slot] = ZeroData[slot]
                            ELSE data[slot] =
                                   StoredAs(slot,
                                     ValueIn(known[ValidFor(known, slot)]))

----------------------------------------------------------------------------
(* C12.  When the frame is a sequence of groups with two separators or     *)
(* more, of which at least one has more than 9 bytes before its first      *)
(* separator or more than 19 bytes between its first two separators, the   *)
(* call returns 1, a field was carved out of every group, no copy into     *)
(* the label was longer than 9 bytes and none into the value longer than   *)
(* 19 bytes, and the label and the value are the first 9 and the first 19  *)
(* bytes of their texts.                                                   *)
Prefix(t, n) == SubSeq(t, 1, Min(Len(t), n))

TooLong(g) ==
    \/ Len(LabelIn(g)) > LabelCap - 1
    \/ Len(ValueIn(g)) > ValueCap - 1

SomeTooLong(gs) ==
    /\ \A k \in 1..Len(gs) : ~ShortOfSeparators(gs[k])
    /\ \E k \in 1..Len(gs) : TooLong(gs[k])

C12_LongTextTruncated ==
    Extracted =>
        \A parsed \in {GroupsFrom(FrameBody, 1)} :
            (parsed.ok /\ SomeTooLong(parsed.groups))
                => /\ pc = "idle"
                   /\ result = 1
                   /\ Len(trace) = Len(parsed.groups)
                   /\ \A k \in 1..Len(trace) :
                         /\ trace[k].lengths[1] <= LabelCap - 1
                         /\ trace[k].lengths[2] <= ValueCap - 1
                         /\ trace[k].label
                               = Prefix(LabelIn(parsed.groups[k]), LabelCap - 1)
                         /\ trace[k].value
                               = Prefix(ValueIn(parsed.groups[k]), ValueCap - 1)

----------------------------------------------------------------------------
(* C13.  Every call returns, with 0 or 1, and every write of the call is   *)
(* inside its destination: the frame copied is of at most 200 bytes, the   *)
(* frame holds at most GROUP_COUNT markers of either kind, no group has    *)
(* more separators than separatorIndex has elements, the three copies of   *)
(* every group have lengths from 0 to the size of label, value and         *)
(* checksum, and the text in a text slot fits the slot with its NUL.       *)
C13_NoFatalPath ==
    Polled =>
        /\ pc = "idle"
        /\ result \in {0, 1}
        /\ Extracted =>
              /\ endOfFrame - startOfFrame <= FrameCap
              /\ Cardinality(Marks(START_OF_GROUP)) <= GROUP_COUNT
              /\ Cardinality(Marks(END_OF_GROUP)) <= GROUP_COUNT
        /\ \A k \in 1..Len(trace) :
              /\ trace[k].separators <= trace[k].room
              /\ trace[k].lengths[1] \in 0..LabelCap
              /\ trace[k].lengths[2] \in 0..ValueCap
              /\ trace[k].lengths[3] \in 0..ChecksumCap
        /\ \A slot \in TextSlots : Len(data[slot]) < SlotCap(slot)

----------------------------------------------------------------------------
(* C14.  When the frame is made of well-formed groups of which at least    *)
(* one is checksum-valid with the separator as its checksum byte, the call *)
(* returns 1, a field was carved out of every group with no more           *)
(* separators recorded than separatorIndex has elements, the field of such *)
(* a group has the label and the value that its first two separators       *)
(* delimit and the separator as its checksum byte and was accepted, and    *)
(* every slot holds what the last checksum-valid group with its label      *)
(* gave.                                                                   *)
SeparatorAsChecksum(g) ==
    WellFormed(g) /\ ChecksumValid(g) /\ CarriedIn(g) = GROUP_SEPARATOR

SomeSeparatorAsChecksum(gs) ==
    /\ \A k \in 1..Len(gs) : WellFormed(gs[k])
    /\ \E k \in 1..Len(gs) : SeparatorAsChecksum(gs[k])

C14_SeparatorAsChecksum ==
    Extracted =>
        \A parsed \in {GroupsFrom(FrameBody, 1)} :
            (parsed.ok /\ SomeSeparatorAsChecksum(parsed.groups))
                => /\ pc = "idle"
                   /\ result = 1
                   /\ Len(trace) = Len(parsed.groups)
                   /\ \A k \in 1..Len(trace) :
                         /\ trace[k].separators <= trace[k].room
                         /\ SeparatorAsChecksum(parsed.groups[k]) =>
                               /\ trace[k].label = LabelIn(parsed.groups[k])
                               /\ trace[k].value = ValueIn(parsed.groups[k])
                               /\ trace[k].checksum = GROUP_SEPARATOR
                               /\ trace[k].accepted
                   /\ \A slot \in Slots :
                         ValidFor(parsed.groups, slot) # 0 =>
                             data[slot] =
                                 StoredAs(slot,
                                   ValueIn(parsed.groups[ValidFor(parsed.groups,
                                                                  slot)]))

----------------------------------------------------------------------------
(* C15.  When wifi_connect has returned 0 after the handler set            *)
(* WIFI_FAIL_BIT, the two handler instances are unregistered and the       *)
(* driver, the event group, the default event loop and the station         *)
(* interface are released: but for the counts of calls and timeouts and    *)
(* the record of the return, the state is that before a first call.        *)
Released(w) ==
    /\ ~w.instance_any_id
    /\ ~w.instance_got_ip
    /\ w.driver = "none"
    /\ w.groups = 0
    /\ ~w.loop
    /\ ~w.sta_netif

C15_TeardownOnFailure ==
    (wifi.at = "out" /\ wifi.returned = 0 /\ wifi.why = "failed")
        => /\ Released(wifi)
           /\ [wifi EXCEPT !.returned = 0, !.why = "none", !.calls = 0,
                           !.timeouts = 0] = WifiOff

====
